---- MODULE Spec2Model ----
(***************************************************************************)
(* A model of sworkstyle (src/src/lib.rs): the event loop of               *)
(* Sworkstyle::run, the per-cycle pass update_workspaces, the label        *)
(* synthesis of update_workspace_name and the two tree walkers.            *)
(*                                                                         *)
(* Strings are sequences of code points, Option<T> is a sequence of        *)
(* length 0 (None) or 1 (Some), and a layout-tree node is a record.        *)
(***************************************************************************)
EXTENDS Integers, Sequences, FiniteSets, TLC

(***************************************************************************)
(* Bounds of the model.                                                    *)
(***************************************************************************)
NumWs == 2          \* workspaces on the visible output (event-loop model)
MaxEvents == 2      \* items the subscription stream delivers in a run
MaxChanges == 1     \* changes of a workspace's window list in a run
MaxNodes == 3       \* nodes below the root of a generated layout tree
MaxWins == 3        \* windows of the workspace of a generated label input

(***************************************************************************)
(* Strings.                                                                *)
(***************************************************************************)
None == <<>>
Some(x) == <<x>>

ScratchName == <<95, 95, 105, 51, 95, 115, 99, 114, 97, 116, 99, 104>>
LRO == <<8237>>
PDF == <<8236>>
Space == <<32>>
ColonSpace == <<58, 32>>
RenameHead ==
    <<114, 101, 110, 97, 109, 101, 32, 119, 111, 114, 107, 115, 112, 97, 99, 101, 32, 34>>
RenameMid == <<34, 32, 116, 111, 32, 34>>
RenameTail == <<34>>

\* format!("{}", n) of a non-negative integer: its decimal digits.
RECURSIVE NatToStr(_)
NatToStr(n) ==
    IF n < 10 THEN <<48 + n>> ELSE NatToStr(n \div 10) \o <<48 + (n % 10)>>

\* format!("{}", i) of an i32: a minus sign, then the digits.
IntToStr(i) == IF i < 0 THEN <<45>> \o NatToStr(0 - i) ELSE NatToStr(i)

\* Ord for String: lexicographic by code point, a proper prefix first.
StrLess(a, b) ==
    \E k \in 1..Len(b) :
        /\ k <= Len(a) + 1
        /\ \A j \in 1..(k - 1) : a[j] = b[j]
        /\ IF k = Len(a) + 1 THEN TRUE ELSE a[k] < b[k]

\* Ord for Option<String>: None before every Some.
OptLess(x, y) ==
    IF x = None THEN y # None ELSE y # None /\ StrLess(x[1], y[1])

\* Ord for the tuple (Option<&String>, Option<String>).
PairLessMutant(p, q) ==
    \/ OptLess(p[2], q[2])
    \/ p[2] = q[2] /\ OptLess(p[1], q[1])
PairLess(p, q) ==
    \/ OptLess(p[1], q[1])
    \/ p[1] = q[1] /\ OptLess(p[2], q[2])

Range(s) == {s[i] : i \in 1..Len(s)}

\* slice.join(sep)
RECURSIVE Join(_, _)
Join(strs, sep) ==
    IF strs = <<>> THEN <<>>
    ELSE IF Len(strs) = 1 THEN strs[1]
    ELSE strs[1] \o sep \o Join(Tail(strs), sep)

(***************************************************************************)
(* The layout tree (swayipc Node, the fields the program reads).           *)
(***************************************************************************)
Node(type, id, name, num, app_id, wprops, kids, floats) ==
    [node_type |-> type, id |-> id, name |-> name, num |-> num,
     app_id |-> app_id, window_properties |-> wprops,
     nodes |-> kids, floating_nodes |-> floats]

RECURSIVE get_workspaces_recurse(_)
RECURSIVE WorkspacesOfEach(_)
RECURSIVE WorkspacesOfEachMutant(_)
WorkspacesOfEachMutant(children) ==
    IF children = <<>> THEN <<>>
    ELSE WorkspacesOfEachMutant(Tail(children)) \o get_workspaces_recurse(Head(children))
WorkspacesOfEach(children) ==
    IF children = <<>> THEN <<>>
    ELSE get_workspaces_recurse(Head(children)) \o WorkspacesOfEach(Tail(children))

IsScratchMutant(node) == FALSE
IsScratch(node) == node.name = Some(ScratchName)

get_workspaces_recurse(node) ==
    IF node.node_type = "Workspace" /\ ~IsScratch(node)
    THEN <<node>>
    ELSE WorkspacesOfEach(node.nodes)

RECURSIVE get_windows(_)
RECURSIVE WindowsOfEach(_)
WindowsOfEach(children) ==
    IF children = <<>> THEN <<>>
    ELSE get_windows(Head(children)) \o WindowsOfEach(Tail(children))

ChainedChildren(node) == node.nodes \o node.floating_nodes

IsWindowMutant(node) ==
    /\ node.node_type \in {"FloatingCon", "Con"}
    /\ node.name # None
    /\ node.name # Some(<<>>)
IsWindow(node) ==
    /\ node.node_type \in {"FloatingCon", "Con"}
    /\ node.name # None

get_windows(node) ==
    (IF IsWindow(node) THEN <<node>> ELSE <<>>)
        \o WindowsOfEach(ChainedChildren(node))

(***************************************************************************)
(* The Config Store (module config): an icon for an identity and an        *)
(* optional fallback title.  A store maps exact identities and, failing    *)
(* that, titles to icons, and has a default icon.                          *)
(***************************************************************************)
ConfigA ==
    [matching |-> (<<97>> :> <<88>>) @@ (<<98>> :> <<89>>),
     generic |-> (<<116>> :> <<84>>),
     fallback |-> <<63>>]
ConfigB ==
    [matching |-> (<<97>> :> <<88>>) @@ (<<98>> :> <<88>>) @@ (<<99>> :> <<>>),
     generic |-> (<<117>> :> <<85>>),
     fallback |-> <<63>>]
Configs == {ConfigA, ConfigB}

fetch_icon(cfg, exact_name, generic_name) ==
    IF exact_name \in DOMAIN cfg.matching THEN cfg.matching[exact_name]
    ELSE IF generic_name # None /\ generic_name[1] \in DOMAIN cfg.generic
         THEN cfg.generic[generic_name[1]]
    ELSE cfg.fallback

(***************************************************************************)
(* Label synthesis: Sworkstyle::update_workspace_name, step by step.       *)
(***************************************************************************)
\* The exact name of a window: app_id, overwritten by the X11 class.
ExactNameMutant(node) ==
    IF node.app_id # None THEN node.app_id
    ELSE IF node.window_properties # None THEN node.window_properties[1].class
    ELSE None
ExactName(node) ==
    IF node.window_properties # None /\ node.window_properties[1].class # None
    THEN node.window_properties[1].class
    ELSE node.app_id

WindowNames(windows) ==
    [i \in 1..Len(windows) |-> <<ExactName(windows[i]), windows[i].name>>]

\* The elements of a BTreeSet in iteration order: ascending, each once.
RECURSIVE Ascending(_)
Ascending(S) ==
    IF S = {} THEN <<>>
    ELSE LET least == CHOOSE p \in S : \A q \in S \ {p} : PairLess(p, q)
         IN  <<least>> \o Ascending(S \ {least})

FirstPassMutant(dedup, names) == names
FirstPass(dedup, names) ==
    IF dedup THEN Ascending(Range(names)) ELSE names

Wrap(icon) == LRO \o icon \o PDF

Icons(cfg, names) ==
    [i \in 1..Len(names) |->
        Wrap(IF names[i][1] # None
             THEN fetch_icon(cfg, names[i][1][1], names[i][2])
             ELSE fetch_icon(cfg, <<>>, names[i][2]))]

\* Vec::dedup: drops every element equal to the one before it.
RECURSIVE DedupMutant(_)
DedupMutant(v) ==
    IF v = <<>> THEN <<>>
    ELSE <<v[1]>> \o DedupMutant(SelectSeq(Tail(v), LAMBDA x : x # v[1]))
RECURSIVE Dedup(_)
Dedup(v) ==
    IF Len(v) <= 1 THEN v
    ELSE IF v[1] = v[2] THEN Dedup(Tail(v))
    ELSE <<v[1]>> \o Dedup(Tail(v))

SecondPass(dedup, icons) == IF dedup THEN Dedup(icons) ELSE icons

JoinedIconsMutant(icons) == Join(icons, Space)
JoinedIcons(icons) ==
    LET joined == Join(icons, Space)
    IN  IF Len(joined) > 0 THEN joined \o Space ELSE joined

NewName(num, icons) ==
    IF Len(icons) > 0 THEN IntToStr(num[1]) \o ColonSpace \o icons
    ELSE IF num # None THEN IntToStr(num[1])
    ELSE Space

RenameCommandMutant(name, new_name) ==
    RenameHead \o new_name \o RenameMid \o name \o RenameTail
RenameCommand(name, new_name) ==
    RenameHead \o name \o RenameMid \o new_name \o RenameTail

NeedsRenameMutant(name, new_name) == TRUE
NeedsRename(name, new_name) == name # new_name

\* What the early returns decide: which error, if any, ends the update
\* before a label exists.
EarlyErrorMutant(workspace) ==
    IF workspace.name = None \/ workspace.num = None THEN "no_index" ELSE "none"
EarlyError(workspace) ==
    IF workspace.name = None THEN "no_name"
    ELSE IF workspace.num = None THEN "no_index"
    ELSE "none"

\* The update of one workspace up to the rename command: the windows found,
\* the error of an early return, the candidate label and the command to run.
update_workspace_name(cfg, dedup, workspace) ==
    LET windows == get_windows(workspace)
        names == FirstPass(dedup, WindowNames(windows))
        icons == SecondPass(dedup, Icons(cfg, names))
        error == EarlyError(workspace)
        new_name == NewName(workspace.num, JoinedIcons(icons))
    IN  IF error # "none"
        THEN [windows |-> windows, names |-> names, error |-> error,
              new_name |-> None, command |-> None]
        ELSE [windows |-> windows, names |-> names, error |-> "none",
              new_name |-> Some(new_name),
              command |-> IF NeedsRename(workspace.name[1], new_name)
                          THEN Some(RenameCommand(workspace.name[1], new_name))
                          ELSE None]

(***************************************************************************)
(* State.                                                                  *)
(***************************************************************************)
VARIABLES
    pc,             \* where run is: "poll", "get_tree", "update", "failed",
                    \* "inotify" or "returned"
    events,         \* items of the subscription stream not yet consumed
    stream,         \* "open", "broken" (an error item was delivered) or "ended"
    delivered,      \* items delivered so far
    changes,        \* changes of a window list so far
    tree,           \* the compositor's layout tree
    workspaces,     \* the workspaces of the tree this cycle fetched, as
                    \* get_workspaces_recurse listed them
    done,           \* per workspace of this cycle, in order: what its update did
    commands,       \* the commands run in this cycle, in order
    result,         \* the error update_workspaces returned, while run handles it
    last_event,     \* the item of the stream the match of line 69 is handling
    config,         \* self.config
    deduplicate,    \* self.deduplicate
    inotify,        \* self.inotify is Some
    file_config,    \* the configuration in the watched file
    watch_ready,    \* a completed write is waiting to be read from the watch
    settled,        \* ids of workspaces renamed to the label of their current windows
    changed         \* ids of workspaces whose windows changed since get_tree

vars ==
    <<pc, events, stream, delivered, changes, tree, workspaces, done, commands,
      result, last_event, config, deduplicate, inotify, file_config, watch_ready,
      settled, changed>>

loop_vars == <<pc, workspaces, done, commands, result, last_event, config>>
env_vars ==
    <<events, stream, delivered, changes, tree, file_config, watch_ready>>

(***************************************************************************)
(* The compositor's trees of the event-loop model: a root, the output      *)
(* holding the scratchpad, and one output with NumWs workspaces.           *)
(***************************************************************************)
Window(type, id, title, app_id, wprops) ==
    Node(type, id, title, None, app_id, wprops, <<>>, <<>>)

Class(c) == Some([class |-> c])

Layouts == 1..2

\* The windows of workspace i under layout k.
Layout(k, i) ==
    CASE k = 1 -> [nodes |-> <<Window("Con", 10 * i + 1, Some(<<116>>), Some(<<97>>), None)>>,
                   floating_nodes |-> <<>>]
      [] k = 2 -> [nodes |->
                     <<Node("Con", 10 * i + 1, None, None, None, None,
                            <<Window("Con", 10 * i + 2, Some(<<116>>), Some(<<98>>), None),
                              Window("Con", 10 * i + 3, Some(<<116>>), Some(<<98>>), None)>>,
                            <<>>)>>,
                   floating_nodes |->
                     <<Window("FloatingCon", 10 * i + 4, Some(<<117>>), None,
                              Class(Some(<<97>>)))>>]

WsKinds == {"plain", "unnamed", "unnumbered"}

Workspace(kind, k, i) ==
    Node("Workspace", i,
         IF kind = "unnamed" THEN None
         ELSE IF kind = "unnumbered" THEN Some(<<119>> \o IntToStr(i))
         ELSE Some(IntToStr(i)),
         IF kind = "unnumbered" THEN None ELSE Some(i),
         None, None, Layout(k, i).nodes, Layout(k, i).floating_nodes)

Scratchpad ==
    Node("Workspace", 101, Some(ScratchName), None, None, None, <<>>,
         <<Window("FloatingCon", 102, Some(<<116>>), Some(<<97>>), None)>>)

BuildTree(kinds, layouts) ==
    Node("Root", 0, Some(<<114>>), None, None, None,
         <<Node("Output", 100, Some(<<95>>), None, None, None, <<Scratchpad>>, <<>>),
           Node("Output", 200, Some(<<111>>), None, None, None,
                [i \in 1..NumWs |-> Workspace(kinds[i], layouts[i], i)], <<>>)>>,
         <<>>)

\* The compositor's rename: the workspace of that name gets the new name.
RECURSIVE RenameIn(_, _, _)
RenameIn(node, old, new) ==
    [node EXCEPT
        !.name = IF node.node_type = "Workspace" /\ node.name = Some(old)
                 THEN Some(new) ELSE @,
        !.nodes = [i \in 1..Len(@) |-> RenameIn(@[i], old, new)]]

(***************************************************************************)
(* The environment: the compositor and the watched file.  The program      *)
(* looks at the stream only in the poll of line 65 and at the watch only   *)
(* in the read of line 84, so what the environment does to either is       *)
(* interleaved right before that step; the tree is read by get_tree and    *)
(* by the compositor's own rename, so it also changes during an update.    *)
(***************************************************************************)
\* A window opens, closes or changes in workspace i: a window event.
WindowChange ==
    /\ pc \in {"poll", "update"}
    /\ stream = "open"
    /\ delivered < MaxEvents
    /\ changes < MaxChanges
    /\ changes' = changes + 1
    /\ \E i \in 1..NumWs, k \in Layouts :
        /\ tree.nodes[2].nodes[i].nodes # Layout(k, i).nodes
        /\ tree' = [tree EXCEPT
                        !.nodes[2].nodes[i].nodes = Layout(k, i).nodes,
                        !.nodes[2].nodes[i].floating_nodes = Layout(k, i).floating_nodes]
        /\ settled' = settled \ {i}
        /\ changed' = changed \cup {i}
    /\ events' = Append(events, "Ok")
    /\ delivered' = delivered + 1
    /\ UNCHANGED <<stream, file_config, watch_ready, deduplicate, inotify>>
    /\ UNCHANGED loop_vars

\* A window event that changes no window list (focus, move).
WindowFocus ==
    /\ pc = "poll"
    /\ stream = "open"
    /\ delivered < MaxEvents
    /\ events' = Append(events, "Ok")
    /\ delivered' = delivered + 1
    /\ UNCHANGED <<stream, changes, tree, file_config, watch_ready, deduplicate, inotify, settled, changed>>
    /\ UNCHANGED loop_vars

\* The connection breaks: the stream delivers an error item.
ConnectionLost ==
    /\ pc = "poll"
    /\ stream = "open"
    /\ delivered < MaxEvents
    /\ events' = Append(events, "Err")
    /\ delivered' = delivered + 1
    /\ stream' = "broken"
    /\ UNCHANGED <<changes, tree, file_config, watch_ready, deduplicate, inotify,
                   settled, changed>>
    /\ UNCHANGED loop_vars

\* The stream ends without an error item (seen once the queue is drained).
StreamEnds ==
    /\ pc = "poll"
    /\ events = <<>>
    /\ stream = "open"
    /\ stream' = "ended"
    /\ UNCHANGED <<events, delivered, changes, tree, file_config, watch_ready,
                   deduplicate, inotify, settled, changed>>
    /\ UNCHANGED loop_vars

\* A write of the watched config file completes (CLOSE_WRITE).
ConfigWritten ==
    /\ pc = "inotify"
    /\ inotify
    /\ \E c \in Configs : file_config' = c
    /\ watch_ready' = TRUE
    /\ UNCHANGED <<events, stream, delivered, changes, tree, deduplicate, inotify,
                   settled, changed>>
    /\ UNCHANGED loop_vars

(***************************************************************************)
(* Sworkstyle::run, lines 64-81: one poll of the subscription stream.      *)
(***************************************************************************)
daemon_frame ==
    <<stream, delivered, changes, file_config, deduplicate, inotify>>

\* Poll::Ready(Some(Ok(_))): a window event; update_workspaces is called.
PollWindowEventMutant ==
    /\ pc = "poll"
    /\ events # <<>>
    /\ Head(events) = "Ok"
    /\ events' = SubSeq(events, 1, Len(events) - 1)
    /\ last_event' = "Ok"
    /\ pc' = "get_tree"
    /\ UNCHANGED <<tree, workspaces, done, commands, result, config,
                   watch_ready, settled, changed>>
    /\ UNCHANGED daemon_frame
PollWindowEvent ==
    /\ pc = "poll"
    /\ events # <<>>
    /\ Head(events) = "Ok"
    /\ events' = Tail(events)
    /\ last_event' = "Ok"
    /\ pc' = "get_tree"
    /\ UNCHANGED <<tree, workspaces, done, commands, result, config,
                   watch_ready, settled, changed>>
    /\ UNCHANGED daemon_frame

AfterErrorMutant == "inotify"
AfterError == "returned"

\* Poll::Ready(Some(Err(e))): run returns the error.
PollConnectionError ==
    /\ pc = "poll"
    /\ events # <<>>
    /\ Head(events) = "Err"
    /\ events' = Tail(events)
    /\ last_event' = "Err"
    /\ pc' = AfterError
    /\ UNCHANGED <<tree, workspaces, done, commands, result, config,
                   watch_ready, settled, changed>>
    /\ UNCHANGED daemon_frame

\* Poll::Ready(None): the stream has ended; nothing is done with it.
PollEndOfStreamMutant ==
    /\ pc = "poll"
    /\ events = <<>>
    /\ stream = "ended"
    /\ pc' = "returned"
    /\ UNCHANGED <<events, tree, last_event, workspaces, done, commands, result,
                   config, watch_ready, settled, changed>>
    /\ UNCHANGED daemon_frame
PollEndOfStream ==
    /\ pc = "poll"
    /\ events = <<>>
    /\ stream = "ended"
    /\ pc' = "inotify"
    /\ UNCHANGED <<events, tree, last_event, workspaces, done, commands, result,
                   config, watch_ready, settled, changed>>
    /\ UNCHANGED daemon_frame

\* Poll::Pending: no item is ready.
PollPending ==
    /\ pc = "poll"
    /\ events = <<>>
    /\ stream # "ended"
    /\ pc' = "inotify"
    /\ UNCHANGED <<events, tree, last_event, workspaces, done, commands, result,
                   config, watch_ready, settled, changed>>
    /\ UNCHANGED daemon_frame

(***************************************************************************)
(* Sworkstyle::update_workspaces, lines 100-111.                           *)
(***************************************************************************)
\* get_tree succeeds: the workspaces of the snapshot are collected.
GetTreeOk ==
    /\ pc = "get_tree"
    /\ workspaces' = get_workspaces_recurse(tree)
    /\ done' = <<>>
    /\ commands' = <<>>
    /\ changed' = {}
    /\ pc' = "update"
    /\ UNCHANGED <<events, tree, result, last_event, config, watch_ready, settled>>
    /\ UNCHANGED daemon_frame

\* get_tree fails: the ? of line 101 returns the error.
GetTreeFails ==
    /\ pc = "get_tree"
    /\ workspaces' = <<>>
    /\ done' = <<>>
    /\ commands' = <<>>
    /\ result' = "tree_err"
    /\ pc' = "failed"
    /\ UNCHANGED <<events, tree, last_event, config, watch_ready, settled, changed>>
    /\ UNCHANGED daemon_frame

\* The workspace the for loop of line 106 is at.
Current == workspaces[Len(done) + 1]
UpdateMutant == update_workspace_name(ConfigA, deduplicate, Current)
Update == update_workspace_name(config, deduplicate, Current)
Entry(u) ==
    [id |-> Current.id, windows |-> u.windows, names |-> u.names,
     error |-> u.error, new_name |-> u.new_name]

\* The update of the current workspace returns early with an error, which
\* the ? of line 107 returns from update_workspaces.
UpdateFails ==
    /\ pc = "update"
    /\ Len(done) < Len(workspaces)
    /\ Update.error # "none"
    /\ done' = Append(done, Entry(Update))
    /\ result' = Update.error
    /\ pc' = "failed"
    /\ UNCHANGED <<events, tree, workspaces, commands, last_event, config,
                   watch_ready, settled, changed>>
    /\ UNCHANGED daemon_frame

\* The candidate label is the current name: nothing is sent.
UpdateKeepsName ==
    /\ pc = "update"
    /\ Len(done) < Len(workspaces)
    /\ Update.error = "none"
    /\ Update.command = None
    /\ done' = Append(done, Entry(Update))
    /\ UNCHANGED <<pc, events, tree, workspaces, commands, result,
                   last_event, config, watch_ready, settled, changed>>
    /\ UNCHANGED daemon_frame

Issued(u) ==
    Append(commands,
           [pos |-> Len(done) + 1, id |-> Current.id, text |-> u.command[1]])

\* run_command succeeds and the compositor renames the workspace.
RenameApplied ==
    /\ pc = "update"
    /\ Len(done) < Len(workspaces)
    /\ Update.error = "none"
    /\ Update.command # None
    /\ done' = Append(done, Entry(Update))
    /\ commands' = Issued(Update)
    /\ tree' = RenameIn(tree, Current.name[1], Update.new_name[1])
    /\ settled' = IF Current.id \in changed THEN settled
                  ELSE settled \cup {Current.id}
    /\ UNCHANGED <<pc, events, workspaces, result, last_event, config,
                   watch_ready, changed>>
    /\ UNCHANGED daemon_frame

\* run_command succeeds but the compositor refuses the command; the reply's
\* per-command outcome is not looked at.
RenameRefused ==
    /\ pc = "update"
    /\ Len(done) < Len(workspaces)
    /\ Update.error = "none"
    /\ Update.command # None
    /\ done' = Append(done, Entry(Update))
    /\ commands' = Issued(Update)
    /\ UNCHANGED <<pc, events, tree, workspaces, result, last_event,
                   config, watch_ready, settled, changed>>
    /\ UNCHANGED daemon_frame

\* run_command fails: the ? of line 207 and then of line 107 return the error.
RenameFails ==
    /\ pc = "update"
    /\ Len(done) < Len(workspaces)
    /\ Update.error = "none"
    /\ Update.command # None
    /\ done' = Append(done, Entry(Update))
    /\ commands' = Issued(Update)
    /\ result' = "command_err"
    /\ pc' = "failed"
    /\ UNCHANGED <<events, tree, workspaces, last_event, config,
                   watch_ready, settled, changed>>
    /\ UNCHANGED daemon_frame

\* update_workspaces is left: the snapshot and what was built from it go.
EndCycle ==
    /\ workspaces' = <<>>
    /\ done' = <<>>
    /\ commands' = <<>>
    /\ changed' = {}
    /\ result' = "none"
    /\ last_event' = "none"

\* The for loop is over: update_workspaces returns Ok(()).
UpdateDone ==
    /\ pc = "update"
    /\ Len(done) = Len(workspaces)
    /\ EndCycle
    /\ pc' = "inotify"
    /\ UNCHANGED <<events, tree, config, watch_ready, settled>>
    /\ UNCHANGED daemon_frame

AfterFailureMutant == "returned"
AfterFailure == "inotify"

\* Lines 71-73: update_workspaces returned an error; run logs it and goes on.
LogError ==
    /\ pc = "failed"
    /\ EndCycle
    /\ pc' = AfterFailure
    /\ UNCHANGED <<events, tree, config, watch_ready, settled>>
    /\ UNCHANGED daemon_frame

(***************************************************************************)
(* Sworkstyle::run, lines 83-96: the watch of the config file, the sleep.  *)
(***************************************************************************)
\* No watch (no config path, or no such file).
NoWatch ==
    /\ pc = "inotify"
    /\ ~inotify
    /\ pc' = "poll"
    /\ UNCHANGED <<events, tree, workspaces, done, commands, result, last_event,
                   config, watch_ready, settled, changed>>
    /\ UNCHANGED daemon_frame

\* read_events is Ok: the config is loaded again and the watch added again.
ReadOkMutant ==
    /\ pc = "inotify"
    /\ inotify
    /\ watch_ready
    /\ watch_ready' = FALSE
    /\ pc' = "poll"
    /\ UNCHANGED <<events, tree, workspaces, done, commands, result, last_event,
                   config, settled, changed>>
    /\ UNCHANGED daemon_frame
ReadOk ==
    /\ pc = "inotify"
    /\ inotify
    /\ watch_ready
    /\ config' = file_config
    /\ watch_ready' = FALSE
    /\ settled' = IF file_config = config THEN settled ELSE {}
    /\ pc' = "poll"
    /\ UNCHANGED <<events, tree, workspaces, done, commands, result, last_event,
                   changed>>
    /\ UNCHANGED daemon_frame

\* read_events is Err (nothing to read, or the read failed).
ReadFails ==
    /\ pc = "inotify"
    /\ inotify
    /\ pc' = "poll"
    /\ UNCHANGED <<events, tree, workspaces, done, commands, result, last_event,
                   config, watch_ready, settled, changed>>
    /\ UNCHANGED daemon_frame

(***************************************************************************)
(* The event loop against a compositor with NumWs workspaces.              *)
(***************************************************************************)
Init ==
    /\ pc = "poll"
    /\ events = <<>>
    /\ stream = "open"
    /\ delivered = 0
    /\ changes = 0
    /\ \E kinds \in [1..NumWs -> WsKinds] :
          tree = BuildTree(kinds, [i \in 1..NumWs |-> 1])
    /\ workspaces = <<>>
    /\ done = <<>>
    /\ commands = <<>>
    /\ result = "none"
    /\ last_event = "none"
    /\ config = ConfigA
    /\ deduplicate \in BOOLEAN
    /\ inotify \in BOOLEAN
    /\ file_config = ConfigA
    /\ watch_ready = FALSE
    /\ settled = {}
    /\ changed = {}

Next ==
    \/ WindowChange
    \/ WindowFocus
    \/ ConnectionLost
    \/ StreamEnds
    \/ ConfigWritten
    \/ PollWindowEvent
    \/ PollConnectionError
    \/ PollEndOfStream
    \/ PollPending
    \/ GetTreeOk
    \/ GetTreeFails
    \/ UpdateFails
    \/ UpdateKeepsName
    \/ RenameApplied
    \/ RenameRefused
    \/ RenameFails
    \/ UpdateDone
    \/ LogError
    \/ NoWatch
    \/ ReadOk
    \/ ReadFails

Spec == Init /\ [][Next]_vars

(***************************************************************************)
(* One update cycle on an arbitrary layout tree: every tree of at most     *)
(* MaxNodes nodes below the root, each node of one of TreeKinds, hung as a *)
(* tiled or as a floating child.  Forests(n) are the shapes of the child   *)
(* lists holding n nodes in all; Labelled gives the nodes of a shape their *)
(* kinds, in the order of a pre-order walk.                                *)
(***************************************************************************)
TreeKinds ==
    {[node_type |-> "Workspace", name |-> Some(<<49>>), num |-> Some(1)],
     [node_type |-> "Workspace", name |-> Some(<<119>>), num |-> Some(3)],
     [node_type |-> "Workspace", name |-> Some(ScratchName), num |-> None],
     [node_type |-> "Workspace", name |-> None, num |-> Some(2)],
     [node_type |-> "Con", name |-> None, num |-> None],
     [node_type |-> "Con", name |-> Some(<<>>), num |-> None],
     [node_type |-> "Con", name |-> Some(<<116>>), num |-> None],
     [node_type |-> "FloatingCon", name |-> Some(<<117>>), num |-> None]}

RECURSIVE TreesOfSize(_)
RECURSIVE Forests(_)
Forests(n) ==
    IF n = 0 THEN {<<>>}
    ELSE UNION {{<<x>> \o rest : x \in TreesOfSize(m), rest \in Forests(n - m)} :
                    m \in 1..n}
TreesOfSize(n) ==
    UNION {{[size |-> n, nodes |-> kids, floating_nodes |-> floats] :
                kids \in Forests(a), floats \in Forests(n - 1 - a)} :
              a \in 0..(n - 1)}

RECURSIVE ForestSize(_)
ForestSize(forest) ==
    IF forest = <<>> THEN 0 ELSE forest[1].size + ForestSize(Tail(forest))

RECURSIVE Labelled(_, _)
Labelled(forest, kinds) ==
    IF forest = <<>> THEN <<>>
    ELSE LET shape == forest[1]
             k == kinds[1]
             a == ForestSize(shape.nodes)
         IN  <<Node(k.node_type, shape.size, k.name, k.num,
                    IF k.node_type = "Workspace" THEN None ELSE Some(<<97>>), None,
                    Labelled(shape.nodes, SubSeq(kinds, 2, 1 + a)),
                    Labelled(shape.floating_nodes, SubSeq(kinds, 2 + a, shape.size)))>>
             \o Labelled(Tail(forest), SubSeq(kinds, shape.size + 1, Len(kinds)))

GenTree(forest, kinds) ==
    Node("Root", 0, Some(<<114>>), None, None, None, Labelled(forest, kinds), <<>>)

\* A window event has been consumed and update_workspaces is entered.
InitCycle ==
    /\ pc = "get_tree"
    /\ events = <<>>
    /\ stream = "open"
    /\ delivered = 1
    /\ changes = 0
    /\ workspaces = <<>>
    /\ done = <<>>
    /\ commands = <<>>
    /\ result = "none"
    /\ last_event = "Ok"
    /\ inotify = FALSE
    /\ watch_ready = FALSE
    /\ settled = {}
    /\ changed = {}

InitTree ==
    /\ InitCycle
    /\ \E n \in 0..MaxNodes :
          \E forest \in Forests(n), kinds \in [1..n -> TreeKinds] :
              tree = GenTree(forest, kinds)
    /\ config = ConfigA
    /\ file_config = ConfigA
    /\ deduplicate = FALSE

NextCycle ==
    \/ GetTreeOk
    \/ GetTreeFails
    \/ UpdateFails
    \/ UpdateKeepsName
    \/ RenameApplied
    \/ RenameRefused
    \/ RenameFails
    \/ UpdateDone
    \/ LogError

SpecTree == InitTree /\ [][NextCycle]_vars

(***************************************************************************)
(* One update cycle on one workspace holding up to MaxWins windows, each   *)
(* of one of WinKinds, under either config and either deduplicate flag.    *)
(***************************************************************************)
WinKinds ==
    {Window("Con", 1, Some(<<116>>), Some(<<97>>), None),
     Window("Con", 2, Some(<<117>>), Some(<<97>>), None),
     Window("Con", 3, Some(<<116>>), Some(<<98>>), None),
     Window("Con", 4, Some(<<116>>), None, None),
     Window("Con", 5, Some(<<116>>), Some(<<98>>), Class(Some(<<97>>))),
     Window("Con", 6, Some(<<>>), Some(<<99>>), Class(None)),
     Window("Con", 7, Some(<<116>>), Some(<<100>>), None)}

LabelNums == {None, Some(-1), Some(3), Some(12)}
LabelNames == {<<51>>, <<119>>}

InitLabel ==
    /\ InitCycle
    /\ \E name \in LabelNames, num \in LabelNums,
          wins \in UNION {[1..n -> WinKinds] : n \in 0..MaxWins} :
          tree = Node("Root", 0, Some(<<114>>), None, None, None,
                      <<Node("Workspace", 7, Some(name), num, None, None,
                             wins, <<>>)>>,
                      <<>>)
    /\ config \in Configs
    /\ file_config = config
    /\ deduplicate \in BOOLEAN

SpecLabel == InitLabel /\ [][NextCycle]_vars

(***************************************************************************)
(* Properties.                                                             *)
(***************************************************************************)
\* The positions in commands of the commands run for the p-th workspace.
CommandsOf(p) == {i \in 1..Len(commands) : commands[i].pos = p}

\* The steps of the loop of run (everything but the environment).
LoopStep ==
    \/ PollWindowEvent \/ PollConnectionError \/ PollEndOfStream \/ PollPending
    \/ GetTreeOk \/ GetTreeFails
    \/ UpdateFails \/ UpdateKeepsName \/ RenameApplied \/ RenameRefused
    \/ RenameFails \/ UpdateDone \/ LogError
    \/ NoWatch \/ ReadOk \/ ReadFails

\* C1: when update_workspaces has returned an error of a workspace's update,
\* every workspace of the cycle's list has been processed all the same.
C1_FailureSkipsNone ==
    pc = "failed" /\ result # "tree_err" => Len(done) = Len(workspaces)

\* C2: a processed workspace with a name and without a num has not failed:
\* its candidate label is " ", and a rename was run for it if and only if
\* its name is not " ".
C2_MissingNumFallsBack ==
    \A p \in 1..Len(done) :
        workspaces[p].name # None /\ workspaces[p].num = None =>
            /\ done[p].error = "none"
            /\ done[p].new_name = Some(<<32>>)
            /\ (CommandsOf(p) # {} <=> workspaces[p].name # Some(<<32>>))

\* C3: no step runs a rename command for a workspace whose rename the
\* compositor has applied, as long as its windows and the config have not
\* changed since the tree of that rename was fetched.
C3_Idempotent ==
    [][Len(commands') > Len(commands) =>
          commands'[Len(commands')].id \notin settled]_vars

\* A later cycle has processed a settled workspace and sent nothing for it.
C3_Witness ==
    \E p \in 1..Len(done) :
        /\ done[p].id \in settled
        /\ done[p].error = "none"
        /\ CommandsOf(p) = {}

\* C4: for every workspace whose update got as far as a candidate label,
\* a command was run exactly when the label differs from the name the
\* snapshot has, once, and it is rename workspace "<name>" to "<label>";
\* no command was run for a workspace whose update failed before that.
C4_RenameIffDifferent ==
    \A p \in 1..Len(done) :
        IF done[p].error # "none" THEN CommandsOf(p) = {}
        ELSE LET name == workspaces[p].name[1]
                 label == done[p].new_name[1]
             IN  IF name = label THEN CommandsOf(p) = {}
                 ELSE /\ Cardinality(CommandsOf(p)) = 1
                      /\ \A i \in CommandsOf(p) :
                            commands[i].text =
                                RenameHead \o name \o RenameMid \o label \o RenameTail

\* One cycle has renamed one workspace and left another as it is.
C4_Witness ==
    \E p, q \in 1..Len(done) :
        /\ done[p].error = "none" /\ done[q].error = "none"
        /\ CommandsOf(p) # {}
        /\ CommandsOf(q) = {}
        /\ workspaces[q].name = done[q].new_name

\* C5: once the error item of the stream has been consumed run has returned,
\* and after that no step of the loop is taken: no get_tree, no rename
\* command, no reload of the config.
C5_ErrorEndsRun ==
    /\ last_event = "Err" => pc = "returned"
    /\ pc = "returned" => ~ENABLED LoopStep

\* run has returned on a connection error, with a window event still queued.
C5_Witness ==
    /\ pc = "returned"
    /\ last_event = "Err"
    /\ delivered > 1

\* C6: an error of update_workspaces is followed by the rest of the loop
\* iteration; run returns only from the poll that consumes an error item of
\* the stream; and a poll that consumes a window event enters
\* update_workspaces.
C6_FailuresKeepLoop ==
    [][/\ pc = "failed" => pc' = "inotify"
       /\ pc' = "returned" /\ pc # "returned" =>
             pc = "poll" /\ events # <<>> /\ Head(events) = "Err"
       /\ pc = "poll" /\ events # <<>> /\ Head(events) = "Ok" /\ pc' # pc =>
             pc' = "get_tree"]_vars

\* The update of the second window event is under way although the cycle of
\* the first has failed (the first workspace has no name, so that a cycle
\* fails there if not already in get_tree).
C6_Witness ==
    /\ pc = "update"
    /\ delivered >= 2
    /\ events = <<>>
    /\ Len(workspaces) > 0
    /\ workspaces[1].name = None

\* The text a command starts with when its old name is the scratchpad's.
ScratchRename == RenameHead \o ScratchName \o RenameMid

\* C7: the list get_workspaces_recurse made of the fetched tree has no node
\* named "__i3_scratch", and no command of the cycle renames a workspace of
\* that name.
C7_NoScratchpad ==
    /\ \A p \in 1..Len(workspaces) : workspaces[p].name # Some(ScratchName)
    /\ \A i \in 1..Len(commands) :
          \/ Len(commands[i].text) < Len(ScratchRename)
          \/ SubSeq(commands[i].text, 1, Len(ScratchRename)) # ScratchRename

\* The node is a workspace named "__i3_scratch".
IsScratchpad(node) ==
    node.node_type = "Workspace" /\ node.name = Some(ScratchName)

\* The tree has a scratchpad, which is not listed, and inside it a workspace
\* with a window, which is listed and renamed.
C7_Witness ==
    /\ Len(tree.nodes) = 1
    /\ IsScratchpad(tree.nodes[1])
    /\ Len(tree.nodes[1].nodes) = 1
    /\ Len(workspaces) = 1
    /\ workspaces[1].id = tree.nodes[1].nodes[1].id
    /\ Len(commands) = 1

\* The places of a subtree: the way from its top to a node, each step a
\* pair of 0 (tiled) or 1 (floating) and the index among those children.
RECURSIVE PathsOf(_)
PathsOf(node) ==
    {<<>>}
    \cup UNION {{<<<<0, i>>>> \o q : q \in PathsOf(node.nodes[i])} :
                    i \in 1..Len(node.nodes)}
    \cup UNION {{<<<<1, i>>>> \o q : q \in PathsOf(node.floating_nodes[i])} :
                    i \in 1..Len(node.floating_nodes)}

RECURSIVE NodeAt(_, _)
NodeAt(node, path) ==
    IF path = <<>> THEN node
    ELSE NodeAt(IF path[1][1] = 0 THEN node.nodes[path[1][2]]
                ELSE node.floating_nodes[path[1][2]],
                Tail(path))

\* Depth-first pre-order of places: a node before what is below it, and of
\* two children of a node the tiled before the floating, then by index.
Before(p, q) ==
    \E k \in 1..Len(q) :
        /\ k <= Len(p) + 1
        /\ \A j \in 1..(k - 1) : p[j] = q[j]
        /\ \/ k = Len(p) + 1
           \/ p[k][1] < q[k][1]
           \/ p[k][1] = q[k][1] /\ p[k][2] < q[k][2]

RECURSIVE InPreOrder(_)
InPreOrder(S) ==
    IF S = {} THEN <<>>
    ELSE LET first == CHOOSE p \in S : \A q \in S \ {p} : Before(p, q)
         IN  <<first>> \o InPreOrder(S \ {first})

\* The nodes of the subtree at the places of S, in pre-order.
NodesAt(top, S) ==
    LET order == InPreOrder(S)
    IN  [i \in 1..Len(order) |-> NodeAt(top, order[i])]

IsCon(node) == node.node_type = "Con" \/ node.node_type = "FloatingCon"

\* C8 as stated: the windows of every processed workspace are the Con and
\* FloatingCon nodes of its subtree with a non-empty name, each once, in
\* pre-order with the tiled children before the floating ones.
C8_NonEmptyNames ==
    \A p \in 1..Len(done) :
        done[p].windows =
            NodesAt(workspaces[p],
                    {q \in PathsOf(workspaces[p]) :
                        /\ IsCon(NodeAt(workspaces[p], q))
                        /\ NodeAt(workspaces[p], q).name # None
                        /\ NodeAt(workspaces[p], q).name # Some(<<>>)})

\* C8 amended: the windows of every processed workspace are the Con and
\* FloatingCon nodes of its subtree whose name is present, the empty name
\* included, each once, in pre-order with the tiled children before the
\* floating ones.
C8_PresentNames ==
    \A p \in 1..Len(done) :
        done[p].windows =
            NodesAt(workspaces[p],
                    {q \in PathsOf(workspaces[p]) :
                        /\ IsCon(NodeAt(workspaces[p], q))
                        /\ NodeAt(workspaces[p], q).name # None})

\* A workspace with a tiled window of empty title and a floating window:
\* both are listed, the floating one last.
C8_Witness ==
    \E p \in 1..Len(done) :
        /\ Len(workspaces[p].nodes) = 1
        /\ Len(workspaces[p].floating_nodes) = 1
        /\ Len(done[p].windows) = 2
        /\ done[p].windows[1].name = Some(<<>>)
        /\ done[p].windows[2].node_type = "FloatingCon"

\* The decimal form of the nums the label inputs have.
Decimal(n) ==
    CASE n = -1 -> <<45, 49>>
      [] n = 3 -> <<51>>
      [] n = 12 -> <<49, 50>>

\* The icon of a window: looked up by its exact name, or by the empty one.
IconOf(window) ==
    fetch_icon(config,
               IF ExactName(window) = None THEN <<>> ELSE ExactName(window)[1],
               window.name)

\* An icon as it stands in a label: U+202D, the icon, U+202C, one space.
Shown(icon) == <<8237>> \o icon \o <<8236, 32>>

RECURSIVE Flatten(_)
Flatten(strs) == IF strs = <<>> THEN <<>> ELSE Head(strs) \o Flatten(Tail(strs))

\* The icons a config can give.
IconSet(cfg) ==
    {cfg.matching[k] : k \in DOMAIN cfg.matching}
    \cup {cfg.generic[k] : k \in DOMAIN cfg.generic}
    \cup {cfg.fallback}

\* C9: the candidate label of a workspace with index n is "n" when it has
\* no window; otherwise it is "n: " and then the icons, each as U+202D icon
\* U+202C and one space; without deduplication these are the icons of the
\* windows, one each, in the order of the window list.
C9_LabelFormat ==
    \A p \in 1..Len(done) :
        done[p].error = "none" =>
            LET n == Decimal(workspaces[p].num[1])
                wins == done[p].windows
                label == done[p].new_name[1]
            IN  IF wins = <<>> THEN label = n
                ELSE IF ~deduplicate
                THEN label = n \o <<58, 32>>
                               \o Flatten([i \in 1..Len(wins) |-> Shown(IconOf(wins[i]))])
                ELSE \E k \in 1..Len(wins) : \E icons \in [1..k -> IconSet(config)] :
                        label = n \o <<58, 32>>
                                  \o Flatten([i \in 1..k |-> Shown(icons[i])])

\* Three windows without deduplication, one of them with an empty icon, in
\* a workspace of a two-digit index.
C9_Witness ==
    \E p \in 1..Len(done) :
        /\ done[p].error = "none"
        /\ ~deduplicate
        /\ workspaces[p].num = Some(12)
        /\ Len(done[p].windows) = 3
        /\ \E i \in 1..3 : IconOf(done[p].windows[i]) = <<>>

\* The (identity, title) pair of a window.
Pair(window) == <<ExactName(window), window.name>>

\* The number of icons in a label (no icon holds U+202D itself).
IconCount(label) == Cardinality({i \in 1..Len(label) : label[i] = 8237})

\* C10: with deduplicate set, the names after the first pass are the
\* distinct (identity, title) pairs of the windows, each once, so that
\* windows of one pair give one icon and the label has no more icons than
\* there are pairs; without it the names are the pairs window by window
\* and the label has one icon per window.
C10_DeduplicatePairs ==
    \A p \in 1..Len(done) :
        LET wins == done[p].windows
            names == done[p].names
            pairs == {Pair(wins[i]) : i \in 1..Len(wins)}
        IN  /\ deduplicate =>
                /\ Range(names) = pairs
                /\ Len(names) = Cardinality(pairs)
            /\ ~deduplicate =>
                /\ Len(names) = Len(wins)
                /\ \A i \in 1..Len(wins) : names[i] = Pair(wins[i])
            /\ done[p].error = "none" =>
                IF deduplicate
                THEN /\ IconCount(done[p].new_name[1]) <= Cardinality(pairs)
                     /\ wins # <<>> => IconCount(done[p].new_name[1]) >= 1
                ELSE IconCount(done[p].new_name[1]) = Len(wins)

\* Three windows of one identity and title, not all the same node, give a
\* label of one icon under deduplication.
C10_Witness ==
    \E p \in 1..Len(done) :
        /\ deduplicate
        /\ done[p].error = "none"
        /\ Len(done[p].windows) = 3
        /\ done[p].windows[1] # done[p].windows[3]
        /\ Cardinality({Pair(done[p].windows[i]) : i \in 1..3}) = 1
        /\ IconCount(done[p].new_name[1]) = 1

\* The identity of a window as the claim words it: the class if there is
\* one, else the app id if there is one, else none.
Identity(window) ==
    IF window.window_properties # None /\ window.window_properties[1].class # None
    THEN window.window_properties[1].class
    ELSE IF window.app_id # None THEN window.app_id
    ELSE None

\* The icon looked up for an identity, the empty one when there is none,
\* with the title as fallback.
LookedUp(window) ==
    fetch_icon(config,
               IF Identity(window) = None THEN <<>> ELSE Identity(window)[1],
               window.name)

\* C11: the identity paired with a window's title is its class if present,
\* else its app id if present, else none; a window without identity does
\* not make the update fail (only a missing name or num does), and without
\* deduplication every window gives one icon, the one looked up with its
\* identity, or with the empty identity, and its title.
C11_IdentityResolution ==
    \A p \in 1..Len(done) :
        LET wins == done[p].windows
            names == done[p].names
        IN  /\ {names[i][1] : i \in 1..Len(names)}
                   = {Identity(wins[i]) : i \in 1..Len(wins)}
            /\ ~deduplicate =>
                  \A i \in 1..Len(wins) : names[i] = <<Identity(wins[i]), wins[i].name>>
            /\ done[p].error # "none" =>
                  workspaces[p].name = None \/ workspaces[p].num = None
            /\ done[p].error = "none" /\ ~deduplicate =>
                  done[p].new_name[1] =
                      IF wins = <<>> THEN Decimal(workspaces[p].num[1])
                      ELSE Decimal(workspaces[p].num[1]) \o <<58, 32>>
                               \o Flatten([i \in 1..Len(wins) |-> Shown(LookedUp(wins[i]))])

\* A workspace is labelled whose windows include one with a class and a
\* different app id and one with neither.
C11_Witness ==
    \E p \in 1..Len(done) :
        /\ done[p].error = "none"
        /\ ~deduplicate
        /\ \E i, j \in 1..Len(done[p].windows) :
              LET w == done[p].windows[i]
                  v == done[p].windows[j]
              IN  /\ w.window_properties # None
                  /\ w.window_properties[1].class # None
                  /\ w.app_id # None
                  /\ w.app_id # w.window_properties[1].class
                  /\ v.app_id = None /\ v.window_properties = None
                  /\ IconCount(done[p].new_name[1]) = Len(done[p].windows)

\* C12: a processed workspace whose name is absent has made its update
\* fail with the error of the missing name and no command was run for it;
\* update_workspaces has returned that error, and the step after it goes
\* on with the loop (the watch read), it does not return from run.
C12_MissingNameFails ==
    /\ [](\A p \in 1..Len(done) :
            workspaces[p].name = None =>
                /\ done[p].error = "no_name"
                /\ done[p].new_name = None
                /\ CommandsOf(p) = {}
                /\ pc = "failed"
                /\ result = "no_name")
    /\ [][pc = "failed" /\ result = "no_name" => pc' = "inotify"]_vars

\* The cycle of the second window event has failed on a workspace without
\* a name, as the cycle of the first did.
C12_Witness ==
    /\ pc = "failed"
    /\ result = "no_name"
    /\ delivered = 2
    /\ events = <<>>
    /\ workspaces[Len(done)].name = None

\* C13: the queue of the stream only ever loses its oldest item, one per
\* step and only in the poll of a cycle, and gains items at its end; a
\* window event taken from it leads to get_tree and nowhere else, get_tree
\* is entered only so, once fetched the tree is not fetched again before
\* the pass is left, the pass takes the workspaces of the list one per step
\* in the order of the list, and the next poll comes after the pass and the
\* watch read.
C13_EventsInOrder ==
    /\ [](\A p \in 1..Len(done) : done[p].id = workspaces[p].id)
    /\ [][/\ events' # events =>
              \/ events # <<>> /\ events' = Tail(events) /\ pc = "poll"
              \/ \E e \in {"Ok", "Err"} : events' = Append(events, e) /\ pc' = pc
          /\ events # <<>> /\ events' = Tail(events) /\ Head(events) = "Ok" =>
                pc' = "get_tree"
          /\ pc' = "get_tree" =>
                pc = "poll" /\ events # <<>> /\ Head(events) = "Ok"
                            /\ events' = Tail(events)
          /\ pc = "get_tree" /\ pc' # pc => pc' \in {"update", "failed"}
          /\ pc = "update" =>
                /\ pc' \in {"update", "failed", "inotify"}
                /\ workspaces' = workspaces \/ pc' = "inotify"
                /\ done' # done /\ pc' # "inotify" =>
                      Len(done') = Len(done) + 1 /\ SubSeq(done', 1, Len(done)) = done
          /\ pc' = "poll" /\ pc # "poll" => pc = "inotify"]_vars

\* While the pass of the first window event is under way the second is
\* queued behind it.
C13_Witness ==
    /\ pc = "update"
    /\ Len(done) = 1
    /\ delivered = 2
    /\ events = <<"Ok">>

\* A workspace the Tree Walker lists when it comes to it.
IsListed(node) ==
    node.node_type = "Workspace" /\ node.name # Some(ScratchName)

\* The places the Tree Walker lists: reached by tiled children only, and
\* through no workspace that is listed itself.
ListedPaths(top) ==
    {q \in PathsOf(top) :
        /\ \A k \in 1..Len(q) : q[k][1] = 0
        /\ IsListed(NodeAt(top, q))
        /\ \A j \in 0..(Len(q) - 1) : ~IsListed(NodeAt(top, SubSeq(q, 1, j)))}

\* C14: the list made of the fetched tree is in depth-first pre-order of
\* that tree; the workspaces are processed in the order of the list, and
\* the commands of a cycle were issued one per step in that order: of two
\* commands the earlier is for the workspace earlier in the list, and each
\* renames the workspace it was issued for.
C14_CommandsInListOrder ==
    /\ [](/\ \A i, j \in 1..Len(commands) : i < j => commands[i].pos < commands[j].pos
          /\ \A i \in 1..Len(commands) :
                /\ commands[i].pos \in 1..Len(done)
                /\ LET name == workspaces[commands[i].pos].name[1]
                       head == RenameHead \o name \o RenameMid
                   IN  /\ Len(commands[i].text) >= Len(head)
                       /\ SubSeq(commands[i].text, 1, Len(head)) = head)
    /\ [][/\ pc = "get_tree" /\ pc' = "update" =>
                workspaces' = NodesAt(tree, ListedPaths(tree))
          /\ commands' # commands /\ commands' # <<>> =>
                /\ Len(commands') = Len(commands) + 1
                /\ SubSeq(commands', 1, Len(commands)) = commands
                /\ commands'[Len(commands')].pos = Len(done) + 1]_vars

\* Two workspaces, the first inside the scratchpad and the second after
\* it, have each got a command, in that order.
C14_Witness ==
    /\ Len(tree.nodes) = 2
    /\ IsScratchpad(tree.nodes[1])
    /\ Len(workspaces) = 2
    /\ Len(commands) = 2
    /\ commands[1].pos = 1
    /\ commands[2].pos = 2

\* The watch read of this step reports a completed write: the write that
\* was waiting has been read.
ReadReports == watch_ready /\ ~watch_ready'

\* C15: a step in which the watch read reports a completed write is the
\* watch read of a cycle of a daemon that has a watch, it makes the Config
\* Store the content of the file, and the watch takes the next write; every
\* other step, the failed read and the read with nothing waiting among
\* them, leaves the Config Store as it is.
C15_ReloadIffWrite ==
    /\ [](watch_ready => inotify)
    /\ [][/\ ReadReports =>
                /\ pc = "inotify" /\ pc' = "poll"
                /\ inotify
                /\ config' = file_config
                /\ inotify'
          /\ ~ReadReports => config' = config
          /\ pc = "inotify" /\ pc' = "poll" /\ ~watch_ready => config' = config]_vars

\* The config has been reloaded once and the re-armed watch holds the next
\* write, of a different content.
C15_Witness ==
    /\ config = ConfigB
    /\ watch_ready
    /\ file_config = ConfigA
    /\ pc = "inotify"

\* The candidate label of the p-th workspace of the list under a config.
LabelUnder(cfg, p) ==
    NewName(workspaces[p].num,
            JoinedIcons(SecondPass(deduplicate, Icons(cfg, done[p].names))))

\* C16: the snapshot, the pass and its commands exist only in a cycle that
\* consumed a window event; the step that reloads the config leaves the
\* tree alone, issues no command and goes on to the next poll, not to
\* get_tree; the config changes only in the watch read, outside any pass,
\* so that every label of a pass is made with the config of the last
\* reload before it.
C16_ReloadApartFromRename ==
    /\ [](/\ pc \in {"get_tree", "update", "failed"} => last_event = "Ok"
          /\ pc \notin {"update", "failed"} =>
                workspaces = <<>> /\ done = <<>> /\ commands = <<>>
          /\ \A p \in 1..Len(done) :
                done[p].error = "none" => done[p].new_name = Some(LabelUnder(config, p)))
    /\ [][/\ config' # config \/ ReadReports =>
                /\ pc = "inotify" /\ pc' = "poll"
                /\ tree' = tree
                /\ commands = <<>> /\ commands' = <<>>
                /\ workspaces' = <<>>
          /\ commands' # commands /\ commands' # <<>> =>
                pc = "update" /\ last_event = "Ok"]_vars

\* A pass after a reload has made a label that the config before the
\* reload would not have given.
C16_Witness ==
    /\ config = ConfigB
    /\ pc = "update"
    /\ \E p \in 1..Len(done) :
          /\ done[p].error = "none"
          /\ done[p].new_name # Some(LabelUnder(ConfigA, p))
          /\ CommandsOf(p) # {}

\* The icon looked up for an (identity, title) pair.
PairIcon(pair) ==
    fetch_icon(config, IF pair[1] = None THEN <<>> ELSE pair[1][1], pair[2])

\* The elements of v from the i-th on that differ from the one before them.
RECURSIVE Collapsed(_, _)
Collapsed(v, i) ==
    IF i > Len(v) THEN <<>>
    ELSE (IF i = 1 \/ v[i] # v[i - 1] THEN <<v[i]>> ELSE <<>>) \o Collapsed(v, i + 1)

\* The icons of the label of the p-th workspace under deduplication.
KeptIcons(p) ==
    Collapsed([i \in 1..Len(done[p].names) |-> PairIcon(done[p].names[i])], 1)

\* C17: with deduplicate set, the icons of the candidate label are those of
\* the names after the first pass, in that order, less every icon equal to
\* the one right before it: no two adjacent icons of the label are equal,
\* and an icon equal to an earlier one that is not its neighbour is kept.
C17_ConsecutiveOnly ==
    \A p \in 1..Len(done) :
        deduplicate /\ done[p].error = "none" =>
            LET kept == KeptIcons(p)
            IN  /\ \A i \in 1..(Len(kept) - 1) : kept[i] # kept[i + 1]
                /\ done[p].new_name[1] =
                      IF kept = <<>> THEN Decimal(workspaces[p].num[1])
                      ELSE Decimal(workspaces[p].num[1]) \o <<58, 32>>
                               \o Flatten([i \in 1..Len(kept) |-> Shown(kept[i])])

\* Under deduplication a label has the same icon twice, with another icon
\* between the two.
C17_Witness ==
    \E p \in 1..Len(done) :
        /\ deduplicate
        /\ done[p].error = "none"
        /\ LET kept == KeptIcons(p)
           IN  /\ Len(kept) = 3
               /\ kept[1] = kept[3]
               /\ kept[1] # kept[2]
               /\ IconCount(done[p].new_name[1]) = 3

\* String a sorts before string b: at the first place where they differ a
\* has the lower code point, or a ends there and b does not.
SortsBefore(a, b) ==
    LET short == IF Len(a) < Len(b) THEN Len(a) ELSE Len(b)
        same == {k \in 0..short : \A j \in 1..k : a[j] = b[j]}
        m == CHOOSE k \in same : \A l \in same : l <= k
    IN  IF m = Len(a) THEN Len(b) > m
        ELSE IF m = Len(b) THEN FALSE
        ELSE a[m + 1] < b[m + 1]

\* An absent string before any present one, present ones as strings.
AbsentFirst(x, y) ==
    IF x = None THEN y # None
    ELSE IF y = None THEN FALSE
    ELSE SortsBefore(x[1], y[1])

\* Identity first, then title.
Precedes(p, q) ==
    AbsentFirst(p[1], q[1]) \/ (p[1] = q[1] /\ AbsentFirst(p[2], q[2]))

\* The permutations of the places of a window list of each length.
Rearrangements == [n \in 0..MaxWins |-> Permutations(1..n)]

\* The candidate label made of the names after the first pass for the
\* p-th workspace.
LabelOf(names, p) ==
    NewName(workspaces[p].num,
            JoinedIcons(SecondPass(deduplicate, Icons(config, names))))

\* C18: with deduplicate set, the names after the first pass are the pairs
\* of the windows in ascending order, identity first and then title, an
\* absent identity before any present one; every permutation of the window
\* list gives the same names, and the candidate label is made of the names
\* alone, so that it is the same for every permutation.
C18_SortedPairs ==
    \A p \in 1..Len(done) :
        deduplicate =>
            LET wins == done[p].windows
                names == done[p].names
            IN  /\ \A i \in 1..(Len(names) - 1) : Precedes(names[i], names[i + 1])
                /\ {names[i] : i \in 1..Len(names)} = {Pair(wins[i]) : i \in 1..Len(wins)}
                /\ \A perm \in Rearrangements[Len(wins)] :
                      names = FirstPass(deduplicate,
                                        WindowNames([i \in 1..Len(wins) |-> wins[perm[i]]]))
                /\ done[p].error = "none" => done[p].new_name[1] = LabelOf(names, p)

\* Under deduplication the window first in the list comes last in the
\* names: a window with an app id before one without identity and one whose
\* class sorts lower.
C18_Witness ==
    \E p \in 1..Len(done) :
        /\ deduplicate
        /\ done[p].error = "none"
        /\ Len(done[p].windows) = 3
        /\ Len(done[p].names) = 3
        /\ done[p].names[3] = Pair(done[p].windows[1])
        /\ done[p].names[1][1] = None
        /\ done[p].names[1] = Pair(done[p].windows[3])

\* C19: once the stream has ended without an error item, run is never
\* returned from and never stuck: the loop goes from the poll to the watch
\* read and back; no snapshot is fetched, no workspace is processed and no
\* command is issued, the tree stays as it is; and a write waiting at the
\* watch read can still be read, which makes the Config Store the content
\* of the file.
C19_EndOfStreamKeepsLoop ==
    /\ [](stream = "ended" =>
            /\ pc \in {"poll", "inotify"}
            /\ events = <<>>
            /\ workspaces = <<>> /\ done = <<>> /\ commands = <<>>
            /\ ENABLED LoopStep
            /\ pc = "inotify" /\ watch_ready =>
                  ENABLED (LoopStep /\ ReadReports /\ config' = file_config))
    /\ [][stream = "ended" =>
            /\ stream' = "ended"
            /\ tree' = tree
            /\ pc = "poll" /\ pc' # pc => pc' = "inotify"
            /\ pc = "inotify" /\ pc' # pc => pc' = "poll"
            /\ ReadReports => config' = file_config]_vars

\* The poll has found the stream ended and the loop is at the watch read
\* with a write of another content waiting.
C19_Witness ==
    /\ stream = "ended"
    /\ pc = "inotify"
    /\ watch_ready
    /\ file_config # config

====
